---- MODULE Spec2Model ----
(***************************************************************************)
(* slabtop.c: the refresh/interaction loop of slabtop.  The control flow   *)
(* of main() is modelled statement by statement (program counter labels    *)
(* are source line numbers); the two signal handlers run atomically        *)
(* between any two statements of main once they are installed.  The        *)
(* external collector, the terminal and the input stream are environment   *)
(* choices (\E) of the statement that calls them.                          *)
(***************************************************************************)
EXTENDS Integers, Sequences, FiniteSets, TLC

\* ---- bounds of the model ------------------------------------------------
MaxOpts  == 2      \* command-line options parsed by parse_opts
MaxFill  == 2      \* fetches (loop cycles) per run
MaxSlabs == 4      \* largest live count a fetch reports (<= CHAINS_ALLOC)

\* ---- program constants --------------------------------------------------
EXIT_SUCCESS == 0
EXIT_FAILURE == 1
DEFAULT_SORT == "OBJS"
DefaultDelay == 3
FallbackCols == 80
FallbackRows == 24
MinRows      == 10
Overhead     == 8
NULL         == 0

Fields == {"OBJS", "AOBJS", "USE", "OBJ_SIZE", "SLABS", "OBJS_PER_SLAB",
           "SIZE", "NAME", "PAGES_PER_SLAB", "ASLABS"}

\* ---- input domains ------------------------------------------------------
Bytes == 0 .. 255
\* bytes the input stream delivers: q Q u x
Keys == {113, 81, 117, 120}
\* first byte of the -s argument: n z
SortArgs == {110, 122}
\* -d arguments as parsed by strtol_or_err
DelayArgs == {0, 1}
\* answers of ioctl(TIOCGWINSZ): failure, or (ws_col, ws_row)
Queries == { [ok |-> FALSE, col |-> 0,   row |-> 0],
             [ok |-> TRUE,  col |-> 90,  row |-> 10],
             [ok |-> TRUE,  col |-> 90,  row |-> 11],
             [ok |-> TRUE,  col |-> 100, row |-> 11] }
\* live counts procps_slabnode_chains_fill reports, -1 for failure
FillResults == {-1, 0, 1, MaxSlabs}
\* buffer references the collector hands out
Refs == {1, 2}

\* ---- pure functions -----------------------------------------------------
\* tolower() of <ctype.h> in the C locale
ToLower(b) == IF b >= 65 /\ b <= 90 THEN b + 32 ELSE b

\* set_sort_item without the case folding
set_sort_item_NoFold(key) ==
    CASE key = 110 -> "NAME"
      [] key = 111 -> "OBJS"
      [] key = 97  -> "AOBJS"
      [] key = 115 -> "OBJ_SIZE"
      [] key = 98  -> "OBJS_PER_SLAB"
      [] key = 112 -> "PAGES_PER_SLAB"
      [] key = 108 -> "SLABS"
      [] key = 118 -> "ASLABS"
      [] key = 99  -> "SIZE"
      [] key = 117 -> "USE"
      [] OTHER     -> DEFAULT_SORT

set_sort_item(key) ==
    LET k == ToLower(key) IN
    CASE k = 110 -> "NAME"
      [] k = 111 -> "OBJS"
      [] k = 97  -> "AOBJS"
      [] k = 115 -> "OBJ_SIZE"
      [] k = 98  -> "OBJS_PER_SLAB"
      [] k = 112 -> "PAGES_PER_SLAB"
      [] k = 108 -> "SLABS"
      [] k = 118 -> "ASLABS"
      [] k = 99  -> "SIZE"
      [] k = 117 -> "USE"
      [] OTHER   -> DEFAULT_SORT

\* term_resize that accepts exactly MinRows rows
term_resize_AtLeast(q) ==
    IF q.ok /\ q.row >= MinRows
    THEN [cols |-> q.col, rows |-> q.row]
    ELSE [cols |-> FallbackCols, rows |-> FallbackRows]

\* the geometry term_resize stores for a given answer of the ioctl
term_resize(q) ==
    IF q.ok /\ q.row > MinRows
    THEN [cols |-> q.col, rows |-> q.row]
    ELSE [cols |-> FallbackCols, rows |-> FallbackRows]

\* ---- state --------------------------------------------------------------
VARIABLES
    pc,         \* statement of main() about to execute
    nopts,      \* options consumed by getopt_long so far, 0 after parsing
    sort_arg,   \* optarg[0] of the last -s option, -1 if none or after parsing
    Cols, Rows, \* tracked geometry (file statics)
    Delay,      \* delay interval, 0 = leave the loop
    Run_once,   \* one-shot flag
    Sort_item,  \* current sort field
    Slab_info,  \* collector handle: "null", "open", "freed"
    is_tty,     \* main: isatty(STDIN_FILENO)
    old_rows,   \* main: rows the surface was last sized for
    rc,         \* main: return code
    nr_slabs,   \* main: live count of the last fetch
    v,          \* main: buffer reference
    i,          \* main: row loop index
    reg,        \* main: value of Rows loaded by the test of line 339, 0 when dead
    args,       \* main: <<rows, cols>> arguments of resizeterm evaluated so far
    tv,         \* main: timeout handed to select
    sel,        \* main: return value of the last select
    c,          \* main: byte read
    nread,      \* main: return value of the last read
    eintr,      \* signal that made the last select return, "none" otherwise
    ws,         \* term_resize: last answer of the ioctl
    winch,      \* part of the current iteration SIGWINCH last came in: "none", "cycle", "render"
    winch_set,  \* SIGWINCH handler installed
    int_set,    \* SIGINT handler installed
    screen,     \* curses: "none", "active", "ended"
    surface,    \* curses: <<rows, cols>> of the last resizeterm
    tcset,      \* tcsetattr(Saved_tty) was called
    fillArg,    \* collector: buffer reference of the last fill
    sortKey,    \* collector: field of the last sort
    sortRet,    \* collector: buffer reference the last sort returned
    nfill,      \* collector: fill calls
    nsort,      \* collector: sort calls
    getchain,   \* collector: result of the last procps_slabs_getchain
    frame,      \* lines printed in the current cycle: "summary", "header", row indices
    nflush,     \* frames flushed by refresh()
    rowRef,     \* buffer reference the rows of frame were read through
    errmsg,     \* last message on the error stream
    exit_code   \* process exit status, -1 while running

vars == <<pc, nopts, sort_arg, Cols, Rows, Delay, Run_once, Sort_item, Slab_info,
          is_tty, old_rows, rc, nr_slabs, v, i, reg, args, tv, sel, c, nread, eintr, ws,
          winch, winch_set, int_set, screen, surface, tcset, fillArg,
          sortKey, sortRet, nfill, nsort, getchain, frame, nflush, rowRef,
          errmsg, exit_code>>

argVars  == <<nopts, sort_arg>>
geomVars == <<Cols, Rows, ws, winch>>
optVars  == <<Delay, Run_once, Sort_item>>
termVars == <<screen, surface, tcset, is_tty, old_rows, reg, args>>
collVars == <<Slab_info, fillArg, sortKey, sortRet, nfill, nsort, getchain,
              nr_slabs, v>>
waitVars == <<tv, sel, c, nread, eintr>>
outVars  == <<frame, nflush, i, rowRef>>
sigVars  == <<winch_set, int_set>>

Init ==
    /\ pc = "L294" /\ nopts = 0 /\ sort_arg = -1
    /\ Cols = 0 /\ Rows = 0
    /\ Delay = DefaultDelay
    /\ Run_once = FALSE
    /\ Sort_item = DEFAULT_SORT
    /\ Slab_info = "null"
    /\ is_tty = FALSE /\ old_rows = 0 /\ rc = EXIT_SUCCESS
    /\ nr_slabs = 0 /\ v = NULL /\ i = 0 /\ reg = 0
    /\ args = <<-1, -1>>
    /\ tv = 0 /\ sel = 0 /\ c = 0 /\ nread = 0 /\ eintr = "none"
    /\ ws = [ok |-> FALSE, col |-> 0, row |-> 0] /\ winch = "none"
    /\ winch_set = FALSE /\ int_set = FALSE
    /\ screen = "none" /\ surface = <<0, 0>>
    /\ tcset = FALSE
    /\ fillArg = NULL /\ sortKey = "none" /\ sortRet = NULL
    /\ nfill = 0 /\ nsort = 0 /\ getchain = 0
    /\ frame = <<>> /\ nflush = 0 /\ rowRef = NULL
    /\ errmsg = "none"
    /\ exit_code = -1

\* exit(code) from xerrx(), usage() or the version branch: no cleanup of main runs
Exit(code, msg) ==
    /\ pc' = "done"
    /\ exit_code' = code
    /\ errmsg' = msg

\* ---- parse_opts ---------------------------------------------------------
OptDelay ==
    /\ pc = "L294" /\ nopts < MaxOpts
    /\ \E parsed \in BOOLEAN, a \in DelayArgs :
          IF ~parsed
          THEN Exit(EXIT_FAILURE, "illegal delay") /\ UNCHANGED <<Delay, nopts>>
          ELSE /\ Delay' = a
               /\ IF a < 1
                  THEN Exit(EXIT_FAILURE, "delay must be positive integer")
                       /\ UNCHANGED nopts
                  ELSE nopts' = nopts + 1 /\ UNCHANGED <<pc, exit_code, errmsg>>
    /\ UNCHANGED <<sort_arg, Run_once, Sort_item, geomVars, termVars, collVars,
                   waitVars, outVars, sigVars, rc>>

OptSort ==
    /\ pc = "L294" /\ nopts < MaxOpts
    /\ \E a \in SortArgs : sort_arg' = a /\ Sort_item' = set_sort_item(a)
    /\ nopts' = nopts + 1
    /\ UNCHANGED <<pc, Delay, Run_once, geomVars, termVars, collVars,
                   waitVars, outVars, sigVars, rc, errmsg, exit_code>>

OptOnce ==
    /\ pc = "L294" /\ nopts < MaxOpts
    /\ Run_once' = TRUE
    /\ Delay' = 0
    /\ nopts' = nopts + 1
    /\ UNCHANGED <<pc, sort_arg, Sort_item, geomVars, termVars, collVars,
                   waitVars, outVars, sigVars, rc, errmsg, exit_code>>

\* -V and -h exit with success, any other option with failure
OptExit ==
    /\ pc = "L294" /\ nopts < MaxOpts
    /\ \E o \in {"V", "h", "?"} :
          IF o = "?" THEN Exit(EXIT_FAILURE, "usage")
                     ELSE Exit(EXIT_SUCCESS, errmsg)
    /\ UNCHANGED <<argVars, optVars, geomVars, termVars, collVars,
                   waitVars, outVars, sigVars, rc>>

\* getopt_long returns -1
OptEnd ==
    /\ pc = "L294"
    /\ pc' = "L296"
    /\ nopts' = 0 /\ sort_arg' = -1
    /\ UNCHANGED <<optVars, geomVars, termVars, collVars,
                   waitVars, outVars, sigVars, rc, errmsg, exit_code>>

\* ---- main: startup ------------------------------------------------------
\* procps_slabinfo_new
SlabinfoNew ==
    /\ pc = "L296"
    /\ \E ok \in BOOLEAN :
          IF ok
          THEN /\ Slab_info' = "open" /\ pc' = "L299"
               /\ UNCHANGED <<errmsg, exit_code>>
          ELSE /\ Exit(EXIT_FAILURE, "Unable to create slabinfo structure")
               /\ UNCHANGED Slab_info
    /\ UNCHANGED <<argVars, optVars, geomVars, termVars, fillArg, sortKey, sortRet, nfill,
                   nsort, getchain, nr_slabs, v, waitVars, outVars, sigVars, rc>>

\* procps_slabnode_chains_alloc
ChainsAlloc ==
    /\ pc = "L299"
    /\ \E r \in {NULL, 1} :
          /\ v' = r
          /\ IF r = NULL
             THEN Exit(EXIT_FAILURE, "Unable to allocate slabinfo nodes")
             ELSE /\ pc' = IF Run_once THEN "L320" ELSE "L303"
                  /\ UNCHANGED <<errmsg, exit_code>>
    /\ UNCHANGED <<argVars, optVars, geomVars, termVars, Slab_info, fillArg,
                   sortKey, sortRet, nfill, nsort, getchain, nr_slabs, waitVars,
                   outVars, sigVars, rc>>

\* lines 303-309: no handler is installed yet, so nothing interleaves; a
\* failure of tcgetattr only warns and Saved_tty is passed to tcsetattr anyway
InitScreen ==
    /\ pc = "L303"
    /\ \E tty \in BOOLEAN, q \in Queries :
          /\ is_tty' = tty
          /\ old_rows' = Rows
          /\ ws' = q
          /\ Cols' = term_resize(q).cols
          /\ Rows' = term_resize(q).rows
          /\ screen' = "active"
          /\ surface' = <<term_resize(q).rows, term_resize(q).cols>>
    /\ pc' = "L310"
    /\ UNCHANGED <<argVars, optVars, winch, tcset, reg, args, collVars,
                   waitVars, outVars, sigVars, rc, errmsg, exit_code>>

InstallWinch ==
    /\ pc = "L310"
    /\ winch_set' = TRUE
    /\ pc' = "L311"
    /\ UNCHANGED <<argVars, optVars, geomVars, termVars, collVars, waitVars,
                   outVars, int_set, rc, errmsg, exit_code>>

InstallInt ==
    /\ pc = "L311"
    /\ int_set' = TRUE
    /\ pc' = "L320"
    /\ UNCHANGED <<argVars, optVars, geomVars, termVars, collVars, waitVars,
                   outVars, winch_set, rc, errmsg, exit_code>>

\* ---- main: fetch and sort -----------------------------------------------
\* Fill that always hands over the reference chains_alloc returned
Fill_Original ==
    /\ pc = "L320" /\ nfill < MaxFill
    /\ nfill' = nfill + 1
    /\ fillArg' = 1
    /\ \E n \in FillResults :
          /\ nr_slabs' = n
          /\ IF n < 0
             THEN /\ errmsg' = "Unable to get slabinfo node data"
                  /\ rc' = EXIT_FAILURE
                  /\ pc' = "L367"
             ELSE /\ pc' = "L325"
                  /\ UNCHANGED <<errmsg, rc>>
    /\ UNCHANGED <<argVars, optVars, geomVars, termVars, Slab_info, sortKey, sortRet,
                   nsort, getchain, v, waitVars, outVars, sigVars, exit_code>>

\* Fill that goes on to the sort after a failure
Fill_NoBreak ==
    /\ pc = "L320" /\ nfill < MaxFill
    /\ nfill' = nfill + 1
    /\ fillArg' = v
    /\ \E n \in FillResults :
          /\ nr_slabs' = n
          /\ IF n < 0
             THEN /\ errmsg' = "Unable to get slabinfo node data"
                  /\ rc' = EXIT_FAILURE
                  /\ pc' = "L325"
             ELSE /\ pc' = "L325"
                  /\ UNCHANGED <<errmsg, rc>>
    /\ UNCHANGED <<argVars, optVars, geomVars, termVars, Slab_info, sortKey, sortRet,
                   nsort, getchain, v, waitVars, outVars, sigVars, exit_code>>

\* procps_slabnode_chains_fill
Fill ==
    /\ pc = "L320" /\ nfill < MaxFill
    /\ nfill' = nfill + 1
    /\ fillArg' = v
    /\ \E n \in FillResults :
          /\ nr_slabs' = n
          /\ IF n < 0
             THEN /\ errmsg' = "Unable to get slabinfo node data"
                  /\ rc' = EXIT_FAILURE
                  /\ pc' = "L367"
             ELSE /\ pc' = "L325"
                  /\ UNCHANGED <<errmsg, rc>>
    /\ UNCHANGED <<argVars, optVars, geomVars, termVars, Slab_info, sortKey, sortRet,
                   nsort, getchain, v, waitVars, outVars, sigVars, exit_code>>

\* Sort that always asks for the default field
Sort_Default ==
    /\ pc = "L325"
    /\ nsort' = nsort + 1
    /\ sortKey' = DEFAULT_SORT
    /\ \E r \in Refs \cup {NULL} :
          /\ v' = r
          /\ sortRet' = r
          /\ IF r = NULL
             THEN /\ errmsg' = "Unable to sort slab nodes"
                  /\ rc' = EXIT_FAILURE
                  /\ pc' = "L367"
             ELSE /\ pc' = IF Run_once THEN "L332" ELSE "L339"
                  /\ UNCHANGED <<errmsg, rc>>
    /\ UNCHANGED <<argVars, optVars, geomVars, termVars, Slab_info, fillArg,
                   nfill, getchain, nr_slabs, waitVars, outVars, sigVars,
                   exit_code>>

\* procps_slabnode_chains_sort: the reference returned may differ from v
Sort ==
    /\ pc = "L325"
    /\ nsort' = nsort + 1
    /\ sortKey' = Sort_item
    /\ \E r \in Refs \cup {NULL} :
          /\ v' = r
          /\ sortRet' = r
          /\ IF r = NULL
             THEN /\ errmsg' = "Unable to sort slab nodes"
                  /\ rc' = EXIT_FAILURE
                  /\ pc' = "L367"
             ELSE /\ pc' = IF Run_once THEN "L332" ELSE "L339"
                  /\ UNCHANGED <<errmsg, rc>>
    /\ UNCHANGED <<argVars, optVars, geomVars, termVars, Slab_info, fillArg,
                   nfill, getchain, nr_slabs, waitVars, outVars, sigVars,
                   exit_code>>

\* ---- rendering ----------------------------------------------------------
\* print_summary: fatal when procps_slabs_getchain fails
print_summary(next) ==
    \E r \in {-1, 0} :
       /\ getchain' = r
       /\ IF r < 0
          THEN /\ Exit(EXIT_FAILURE, "Error getting slab summary results")
               /\ frame' = <<>>
          ELSE /\ frame' = <<"summary">>
               /\ pc' = next
               /\ UNCHANGED <<errmsg, exit_code>>

\* ---- main: one-shot rendering -------------------------------------------
OnceSummary ==
    /\ pc = "L332"
    /\ print_summary("L333")
    /\ UNCHANGED <<argVars, optVars, geomVars, termVars, Slab_info, fillArg,
                   sortKey, sortRet, nfill, nsort, nr_slabs, v, waitVars, nflush, i,
                   rowRef, sigVars, rc>>

OnceHeadings ==
    /\ pc = "L333"
    /\ frame' = Append(frame, "header")
    /\ i' = 0
    /\ pc' = "L334"
    /\ UNCHANGED <<argVars, optVars, geomVars, termVars, collVars, waitVars,
                   nflush, rowRef, sigVars, rc, errmsg, exit_code>>

\* OnceRow with the screen-height clipping of the interactive loop
OnceRow_Clipped ==
    /\ pc = "L334"
    /\ IF i < Rows - Overhead /\ i < nr_slabs
       THEN /\ frame' = Append(frame, i)
            /\ rowRef' = v
            /\ i' = i + 1
            /\ UNCHANGED pc
       ELSE /\ pc' = "L367"
            /\ UNCHANGED <<frame, i, rowRef>>
    /\ UNCHANGED <<argVars, optVars, geomVars, termVars, collVars, waitVars,
                   nflush, sigVars, rc, errmsg, exit_code>>

\* one evaluation of the for condition, and the body if it holds
OnceRow ==
    /\ pc = "L334"
    /\ IF i < nr_slabs
       THEN /\ frame' = Append(frame, i)
            /\ rowRef' = v
            /\ i' = i + 1
            /\ UNCHANGED pc
       ELSE /\ pc' = "L367"
            /\ UNCHANGED <<frame, i, rowRef>>
    /\ UNCHANGED <<argVars, optVars, geomVars, termVars, collVars, waitVars,
                   nflush, sigVars, rc, errmsg, exit_code>>

\* ---- main: interactive cycle --------------------------------------------
\* if (old_rows != Rows)
ResizeTest ==
    /\ pc = "L339"
    /\ reg' = IF old_rows # Rows THEN Rows ELSE 0
    /\ pc' = IF old_rows # Rows THEN "L340" ELSE "L343"
    /\ UNCHANGED <<argVars, optVars, geomVars, screen, surface, tcset,
                   is_tty, old_rows, args, collVars, waitVars, outVars,
                   sigVars, rc, errmsg, exit_code>>

\* resizeterm(Rows, Cols): the first argument evaluated, in either order; the
\* rows argument is the value loaded at line 339 or a fresh load of Rows
ResizeArg ==
    /\ pc = "L340"
    /\ \/ \E r \in {reg, Rows} : args' = <<r, -1>>
       \/ args' = <<-1, Cols>>
    /\ pc' = "L340b"
    /\ UNCHANGED <<argVars, optVars, geomVars, screen, surface, tcset,
                   is_tty, old_rows, reg, collVars, waitVars, outVars,
                   sigVars, rc, errmsg, exit_code>>

\* the other argument evaluated and the call made
ResizeCall ==
    /\ pc = "L340b"
    /\ \E r \in {reg, Rows} :
          surface' = IF args[1] = -1 THEN <<r, args[2]>> ELSE <<args[1], Cols>>
    /\ args' = <<-1, -1>>
    /\ reg' = 0
    /\ pc' = "L341"
    /\ UNCHANGED <<argVars, optVars, geomVars, screen, tcset, is_tty,
                   old_rows, collVars, waitVars, outVars, sigVars, rc,
                   errmsg, exit_code>>

\* ResizeDone with the assignment the other way round
ResizeDone_Reversed ==
    /\ pc = "L341"
    /\ Rows' = old_rows
    /\ pc' = "L343"
    /\ UNCHANGED <<argVars, optVars, Cols, ws, winch, termVars, collVars,
                   waitVars, outVars, sigVars, rc, errmsg, exit_code>>

\* old_rows = Rows
ResizeDone ==
    /\ pc = "L341"
    /\ old_rows' = Rows
    /\ pc' = "L343"
    /\ UNCHANGED <<argVars, optVars, geomVars, screen, surface, tcset,
                   is_tty, reg, args, collVars, waitVars, outVars, sigVars,
                   rc, errmsg, exit_code>>

\* move(0, 0); print_summary()
LoopSummary ==
    /\ pc = "L343"
    /\ print_summary("L345")
    /\ UNCHANGED <<argVars, optVars, geomVars, termVars, Slab_info, fillArg,
                   sortKey, sortRet, nfill, nsort, nr_slabs, v, waitVars, nflush, i,
                   rowRef, sigVars, rc>>

\* attron; print_headings(); attroff; i = 0
LoopHeadings ==
    /\ pc = "L345"
    /\ frame' = Append(frame, "header")
    /\ i' = 0
    /\ pc' = "L349"
    /\ UNCHANGED <<argVars, optVars, geomVars, termVars, collVars, waitVars,
                   nflush, rowRef, sigVars, rc, errmsg, exit_code>>

\* LoopRow that draws one row more than fits
LoopRow_OffByOne ==
    /\ pc = "L349"
    /\ IF i <= Rows - Overhead /\ i < nr_slabs
       THEN /\ frame' = Append(frame, i)
            /\ rowRef' = v
            /\ i' = i + 1
            /\ UNCHANGED pc
       ELSE /\ pc' = "L352"
            /\ UNCHANGED <<frame, i, rowRef>>
    /\ UNCHANGED <<argVars, optVars, geomVars, termVars, collVars, waitVars,
                   nflush, sigVars, rc, errmsg, exit_code>>

\* one evaluation of i < Rows - 8 && i < nr_slabs, and the body if it holds
LoopRow ==
    /\ pc = "L349"
    /\ IF i < Rows - Overhead /\ i < nr_slabs
       THEN /\ frame' = Append(frame, i)
            /\ rowRef' = v
            /\ i' = i + 1
            /\ UNCHANGED pc
       ELSE /\ pc' = "L352"
            /\ UNCHANGED <<frame, i, rowRef>>
    /\ UNCHANGED <<argVars, optVars, geomVars, termVars, collVars, waitVars,
                   nflush, sigVars, rc, errmsg, exit_code>>

\* refresh()
Refresh ==
    /\ pc = "L352"
    /\ nflush' = nflush + 1
    /\ pc' = "L355"
    /\ UNCHANGED <<argVars, optVars, geomVars, termVars, collVars, waitVars,
                   frame, i, rowRef, sigVars, rc, errmsg, exit_code>>

\* SetTimeout with the default delay instead of Delay
SetTimeout_Const ==
    /\ pc = "L355"
    /\ tv' = DefaultDelay
    /\ pc' = "L357"
    /\ UNCHANGED <<argVars, optVars, geomVars, termVars, collVars, sel, c,
                   nread, eintr, outVars, sigVars, rc, errmsg, exit_code>>

\* tv.tv_sec = Delay
SetTimeout ==
    /\ pc = "L355"
    /\ tv' = Delay
    /\ pc' = "L357"
    /\ UNCHANGED <<argVars, optVars, geomVars, termVars, collVars, sel, c,
                   nread, eintr, outVars, sigVars, rc, errmsg, exit_code>>

\* select() entered: main is blocked until one of the outcomes below
SelectEnter ==
    /\ pc = "L357"
    /\ pc' = "wait"
    /\ UNCHANGED <<argVars, optVars, geomVars, termVars, collVars, waitVars,
                   outVars, sigVars, rc, errmsg, exit_code>>

\* SelectTimeout after which the stale byte in c is resolved anyway
SelectTimeout_Resort ==
    /\ pc = "wait"
    /\ \E r \in {0, -1} : sel' = r
    /\ Sort_item' = set_sort_item(c)
    /\ pc' = "L365"
    /\ UNCHANGED <<argVars, Delay, Run_once, geomVars, termVars, collVars, tv, c,
                   nread, eintr, outVars, sigVars, rc, errmsg, exit_code>>

\* select returns 0 (timeout), or -1 for an error other than EINTR
SelectTimeout ==
    /\ pc = "wait"
    /\ \E r \in {0, -1} : sel' = r
    /\ pc' = "L365"
    /\ UNCHANGED <<argVars, optVars, geomVars, termVars, collVars, tv, c,
                   nread, eintr, outVars, sigVars, rc, errmsg, exit_code>>

\* select returns 1: input is ready
SelectReady ==
    /\ pc = "wait"
    /\ sel' = 1
    /\ pc' = "L359"
    /\ UNCHANGED <<argVars, optVars, geomVars, termVars, collVars, tv, c,
                   nread, eintr, outVars, sigVars, rc, errmsg, exit_code>>

\* ReadKey that keeps the sort field on a byte outside the table
ReadKey_Keep ==
    /\ pc = "L359"
    /\ \E n \in {-1, 0, 1}, b \in Keys :
          /\ nread' = n
          /\ c' = IF n = 1 THEN b ELSE c
          /\ IF n # 1 \/ b = 81 \/ b = 113
             THEN /\ pc' = "L367"
                  /\ UNCHANGED Sort_item
             ELSE /\ Sort_item' = IF set_sort_item(b) = DEFAULT_SORT /\ ToLower(b) # 111
                                  THEN Sort_item ELSE set_sort_item(b)
                  /\ pc' = "L365"
    /\ UNCHANGED <<argVars, Delay, Run_once, geomVars, termVars, collVars, tv,
                   sel, eintr, outVars, sigVars, rc, errmsg, exit_code>>

\* ReadKey that quits on 'q' only
ReadKey_LowerOnly ==
    /\ pc = "L359"
    /\ \E n \in {-1, 0, 1}, b \in Keys :
          /\ nread' = n
          /\ c' = IF n = 1 THEN b ELSE c
          /\ IF n # 1 \/ b = 113
             THEN /\ pc' = "L367"
                  /\ UNCHANGED Sort_item
             ELSE /\ Sort_item' = set_sort_item(b)
                  /\ pc' = "L365"
    /\ UNCHANGED <<argVars, Delay, Run_once, geomVars, termVars, collVars, tv,
                   sel, eintr, outVars, sigVars, rc, errmsg, exit_code>>

\* read one byte; break on failure, EOF, 'q' or 'Q'; else set the sort field
ReadKey ==
    /\ pc = "L359"
    /\ \E n \in {-1, 0, 1}, b \in Keys :
          /\ nread' = n
          /\ c' = IF n = 1 THEN b ELSE c
          /\ IF n # 1 \/ b = 81 \/ b = 113
             THEN /\ pc' = "L367"
                  /\ UNCHANGED Sort_item
             ELSE /\ Sort_item' = set_sort_item(b)
                  /\ pc' = "L365"
    /\ UNCHANGED <<argVars, Delay, Run_once, geomVars, termVars, collVars, tv,
                   sel, eintr, outVars, sigVars, rc, errmsg, exit_code>>

\* LoopCond that repeats unless the wait timed out with Delay zero
LoopCond_Stale ==
    /\ pc = "L365"
    /\ pc' = IF Delay # 0 \/ sel # 0 THEN "L320" ELSE "L367"
    /\ tv' = 0 /\ sel' = 0 /\ eintr' = "none" /\ winch' = "none"
    /\ IF Delay # 0 \/ sel # 0 THEN frame' = <<>> /\ i' = 0 /\ rowRef' = NULL
       ELSE UNCHANGED <<frame, i, rowRef>>
    /\ UNCHANGED <<argVars, optVars, Cols, Rows, ws, termVars, collVars, c, nread,
                   nflush, sigVars, rc, errmsg, exit_code>>

\* while (Delay); tv, i and the result of select do not outlive the
\* iteration, and frame starts empty in the next one
LoopCond ==
    /\ pc = "L365"
    /\ pc' = IF Delay # 0 THEN "L320" ELSE "L367"
    /\ tv' = 0 /\ sel' = 0 /\ eintr' = "none" /\ winch' = "none"
    /\ IF Delay # 0 THEN frame' = <<>> /\ i' = 0 /\ rowRef' = NULL
       ELSE UNCHANGED <<frame, i, rowRef>>
    /\ UNCHANGED <<argVars, optVars, Cols, Rows, ws, termVars, collVars, c, nread,
                   nflush, sigVars, rc, errmsg, exit_code>>

\* ---- main: termination --------------------------------------------------
\* lines 367-371: restore the terminal in interactive mode
Cleanup ==
    /\ pc = "L367"
    /\ IF Run_once
       THEN UNCHANGED <<tcset, screen>>
       ELSE /\ tcset' = (tcset \/ is_tty)
            /\ screen' = "ended"
    /\ pc' = "L372"
    /\ UNCHANGED <<argVars, optVars, geomVars, surface, is_tty, old_rows,
                   reg, args, collVars, waitVars, outVars, sigVars, rc,
                   errmsg, exit_code>>

\* Unref that returns EXIT_SUCCESS whatever rc holds
Unref_Zero ==
    /\ pc = "L372"
    /\ Slab_info' = "freed"
    /\ pc' = "done"
    /\ exit_code' = EXIT_SUCCESS
    /\ UNCHANGED <<argVars, optVars, geomVars, termVars, fillArg, sortKey, sortRet,
                   nfill, nsort, getchain, nr_slabs, v, waitVars, outVars,
                   sigVars, rc, errmsg>>

\* procps_slabinfo_unref(&Slab_info); return rc
Unref ==
    /\ pc = "L372"
    /\ Slab_info' = "freed"
    /\ pc' = "done"
    /\ exit_code' = rc
    /\ UNCHANGED <<argVars, optVars, geomVars, termVars, fillArg, sortKey, sortRet,
                   nfill, nsort, getchain, nr_slabs, v, waitVars, outVars,
                   sigVars, rc, errmsg>>

\* ---- signal handlers ----------------------------------------------------
\* a handler that runs while main is blocked in select makes select return -1
Interrupted(sig) ==
    IF pc = "wait"
    THEN pc' = "L365" /\ sel' = -1 /\ eintr' = sig
    ELSE UNCHANGED <<pc, sel, eintr>>

\* lines 320-341 of an iteration: fetch, sort and the resize step
BeforeRender == {"L320", "L325", "L339", "L340", "L340b", "L341"}

\* lines 343-352 of an iteration: the frame is drawn and flushed
Rendering == {"L343", "L345", "L349", "L352"}

\* SIGWINCH: term_resize
SigWinch ==
    /\ winch_set /\ pc # "done"
    /\ \E q \in Queries :
          /\ ws' = q
          /\ Cols' = term_resize(q).cols
          /\ Rows' = term_resize(q).rows
    /\ winch' = IF pc \in Rendering THEN "render"
                ELSE IF pc \in BeforeRender THEN "cycle" ELSE winch
    /\ Interrupted("SIGWINCH")
    /\ UNCHANGED <<argVars, optVars, termVars, collVars, tv, c, nread, outVars,
                   sigVars, rc, errmsg, exit_code>>

\* SIGINT: sigint_handler
SigInt ==
    /\ int_set /\ pc # "done"
    /\ Delay' = 0
    /\ Interrupted("SIGINT")
    /\ UNCHANGED <<argVars, Run_once, Sort_item, geomVars, termVars, collVars,
                   tv, c, nread, outVars, sigVars, rc, errmsg, exit_code>>

\* ---- specification ------------------------------------------------------
Next ==
    \/ OptDelay \/ OptSort \/ OptOnce \/ OptExit \/ OptEnd
    \/ SlabinfoNew \/ ChainsAlloc \/ InitScreen \/ InstallWinch \/ InstallInt
    \/ Fill \/ Sort
    \/ OnceSummary \/ OnceHeadings \/ OnceRow
    \/ ResizeTest \/ ResizeArg \/ ResizeCall \/ ResizeDone
    \/ LoopSummary \/ LoopHeadings \/ LoopRow \/ Refresh
    \/ SetTimeout \/ SelectEnter \/ SelectTimeout \/ SelectReady \/ ReadKey
    \/ LoopCond \/ Cleanup \/ Unref
    \/ SigWinch \/ SigInt

Spec == Init /\ [][Next]_vars

TypeOK ==
    /\ Delay \in -1 .. DefaultDelay
    /\ Sort_item \in Fields
    /\ nr_slabs \in -1 .. MaxSlabs
    /\ v \in Refs \cup {NULL}
    /\ sortRet \in Refs \cup {NULL}
    /\ rowRef \in Refs \cup {NULL}
    /\ winch \in {"none", "cycle", "render"}
    /\ exit_code \in {-1, EXIT_SUCCESS, EXIT_FAILURE}

\* ---- the sort key controller on its own ---------------------------------
\* Every byte is fed to set_sort_item the way lines 179 and 362 do it
\* (Sort_item = set_sort_item(byte)), from any current sort field.
InitResolve ==
    /\ pc = "resolve" /\ nopts = 0 /\ sort_arg = -1
    /\ Cols = 0 /\ Rows = 0
    /\ Delay = DefaultDelay
    /\ Run_once = FALSE
    /\ Sort_item \in Fields
    /\ Slab_info = "null"
    /\ is_tty = FALSE /\ old_rows = 0 /\ rc = EXIT_SUCCESS
    /\ nr_slabs = 0 /\ v = NULL /\ i = 0 /\ reg = 0
    /\ args = <<-1, -1>>
    /\ tv = 0 /\ sel = 0 /\ c \in Bytes /\ nread = 0 /\ eintr = "none"
    /\ ws = [ok |-> FALSE, col |-> 0, row |-> 0] /\ winch = "none"
    /\ winch_set = FALSE /\ int_set = FALSE
    /\ screen = "none" /\ surface = <<0, 0>>
    /\ tcset = FALSE
    /\ fillArg = NULL /\ sortKey = "none" /\ sortRet = NULL
    /\ nfill = 0 /\ nsort = 0 /\ getchain = 0
    /\ frame = <<>> /\ nflush = 0 /\ rowRef = NULL
    /\ errmsg = "none"
    /\ exit_code = -1

\* Sort_item = set_sort_item(c), as often as wanted
ResolveKey ==
    /\ pc \in {"resolve", "resolved"}
    /\ Sort_item' = set_sort_item(c)
    /\ pc' = "resolved"
    /\ UNCHANGED <<argVars, Delay, Run_once, geomVars, termVars, collVars,
                   waitVars, outVars, sigVars, rc, errmsg, exit_code>>

\* the same letter in the other case, resolved again
ResolveOtherCase ==
    /\ pc = "resolved"
    /\ \/ c >= 65 /\ c <= 90  /\ c' = c + 32
       \/ c >= 97 /\ c <= 122 /\ c' = c - 32
    /\ Sort_item' = set_sort_item(c')
    /\ UNCHANGED <<pc, argVars, Delay, Run_once, geomVars, termVars, collVars,
                   tv, sel, nread, eintr, outVars, sigVars, rc, errmsg, exit_code>>

NextResolve == ResolveKey \/ ResolveOtherCase

SpecResolve == InitResolve /\ [][NextResolve]_vars

\* ---- vocabulary of the properties ---------------------------------------
\* the documented key table (usage(), lines 111-120), lower-case letters
KeyTable ==
    [k \in {110, 111, 97, 115, 98, 112, 108, 118, 99, 117} |->
        CASE k = 110 -> "NAME"           [] k = 111 -> "OBJS"
          [] k = 97  -> "AOBJS"          [] k = 115 -> "OBJ_SIZE"
          [] k = 98  -> "OBJS_PER_SLAB"  [] k = 112 -> "PAGES_PER_SLAB"
          [] k = 108 -> "SLABS"          [] k = 118 -> "ASLABS"
          [] k = 99  -> "SIZE"           [] k = 117 -> "USE"]

\* lower-case form of a byte that is one of the ten letters in either case, else -1
Letter(b) ==
    IF b \in DOMAIN KeyTable THEN b
    ELSE IF b + 32 \in DOMAIN KeyTable /\ b >= 65 /\ b <= 90 THEN b + 32
    ELSE -1

Recognized(b) == Letter(b) # -1

\* the field the documentation promises for a byte
Documented(b) == IF Recognized(b) THEN KeyTable[Letter(b)] ELSE "OBJS"

QuitKeys == {81, 113}

\* statements of the interactive cycle between the sort and the read
ShownLabels == {"L339", "L340", "L340b", "L341", "L343", "L345", "L349",
                "L352", "L355", "L357", "wait", "L359"}
\* statements of the interactive cycle from the end of the wait onwards
AfterWait == {"L365", "L367", "L372", "done"}
\* statements after the loop
Terminating == {"L367", "L372", "done"}

\* the rows 0 .. n-1 in buffer order
RowsUpTo(n) == [k \in 1 .. n |-> k - 1]
FullFrame(n) == <<"summary", "header">> \o RowsUpTo(n)

\* ---- C1 -----------------------------------------------------------------
\* C1 as stated: a one-shot run whose fetch and sort succeeded has rendered
\* summary, header and every live row, and exits with success.
C1_AsStated ==
    (Run_once /\ pc = "done" /\ nfill = 1 /\ nr_slabs >= 0
              /\ nsort = 1 /\ v # NULL)
        => (frame = FullFrame(nr_slabs) /\ exit_code = EXIT_SUCCESS)

\* C1 (amended): in one-shot mode the program never enters the interactive
\* statements or the bounded wait, fetches and sorts at most once, and a run
\* that leaves the loop did exactly one fetch; if fetch, sort and the summary
\* retrieval succeeded it has rendered summary, header and the rows
\* 0 .. nr_slabs-1 unclipped and exits with success.
C1_OneShot ==
    (Run_once /\ pc # "L294") =>
        /\ pc \in {"L296", "L299", "L320", "L325", "L332", "L333", "L334",
                   "L367", "L372", "done"}
        /\ nfill <= 1 /\ nsort <= 1 /\ nflush = 0 /\ sel = 0
        /\ screen = "none"
        /\ (pc \in {"L367", "L372"} => nfill = 1)
        /\ (pc = "done" /\ nfill = 1 /\ nr_slabs >= 0 /\ nsort = 1 /\ v # NULL
                        /\ getchain = 0)
              => (frame = FullFrame(nr_slabs) /\ exit_code = EXIT_SUCCESS)
        /\ (pc = "done" /\ getchain < 0)
              => (frame = <<>> /\ exit_code = EXIT_FAILURE)

C1_Witness ==
    /\ Run_once /\ pc = "done" /\ exit_code = EXIT_SUCCESS
    /\ nfill = 1 /\ nsort = 1 /\ nr_slabs = MaxSlabs
    /\ frame = FullFrame(MaxSlabs)

\* ---- C2 -----------------------------------------------------------------
\* C2: a SIGINT delivered while main is blocked in select makes select
\* return, with Delay zero, to the loop condition; from there on Delay stays
\* zero, control only moves towards termination and no fetch is started.
C2_InterruptInWait ==
    [][ /\ (pc = "wait" /\ SigInt)
              => (pc' = "L365" /\ Delay' = 0 /\ eintr' = "SIGINT")
        /\ (pc \in AfterWait /\ Delay = 0)
              => (pc' \in AfterWait /\ Delay' = 0 /\ nfill' = nfill)
        /\ (pc = "L365" /\ Delay = 0 /\ pc' # pc) => pc' = "L367" ]_vars

C2_Witness ==
    /\ pc = "L365" /\ eintr = "SIGINT" /\ sel = -1 /\ Delay = 0
    /\ tv > 0 /\ nfill = 1 /\ nflush = 1

\* ---- C3 -----------------------------------------------------------------
\* C3: the read of line 359 leaves the loop exactly when it did not return
\* one byte or the byte is 'q' or 'Q', and then the sort field is unchanged
\* and no fetch follows; after any other byte control is at the loop
\* condition, which leaves the loop only when Delay is zero, and inside the
\* loop only the SIGINT handler makes Delay zero.
C3_QuitKeys ==
    /\ [][ (pc = "L359" /\ pc' # pc) =>
              /\ (pc' = "L367") <=> (nread' # 1 \/ c' \in QuitKeys)
              /\ (pc' = "L367") => (Sort_item' = Sort_item /\ nfill' = nfill)
              /\ (pc' # "L367") => pc' = "L365" ]_vars
    /\ [][ (pc \in Terminating) => (pc' \in Terminating /\ nfill' = nfill) ]_vars
    /\ [][ (pc = "L365" /\ pc' = "L367") => Delay = 0 ]_vars
    /\ [][ (pc # "L294" /\ Delay # 0 /\ Delay' = 0) => SigInt ]_vars
    /\ [](~Run_once /\ pc = "L311" => Delay > 0)

C3_Witness ==
    /\ pc = "L367" /\ sel = 1 /\ nread = 1 /\ c = 81
    /\ Sort_item = "NAME" /\ Delay > 0 /\ rc = EXIT_SUCCESS

\* ---- C4 -----------------------------------------------------------------
\* C4: a byte other than 'q'/'Q' read at line 359 makes the sort field the
\* documented field of that byte; with Delay non-zero the loop condition goes
\* straight to the next fetch; and in every cycle that follows a keystroke
\* the sort was asked for, and the frame is drawn in, the field of that byte.
C4_NextFrameSorted ==
    /\ [][ (pc = "L359" /\ pc' = "L365") => Sort_item' = Documented(c') ]_vars
    /\ [][ (pc = "L365" /\ Delay # 0 /\ pc' # pc) => pc' = "L320" ]_vars
    /\ [](pc \in ShownLabels /\ nread = 1
            => (sortKey = Documented(c) /\ Sort_item = sortKey))

C4_Witness ==
    /\ pc = "L352" /\ nfill = 2 /\ nread = 1 /\ c = 117
    /\ sortKey = "USE" /\ Len(frame) > 2

\* ---- C5 -----------------------------------------------------------------
\* C5: whatever the byte and the current field, set_sort_item yields a field:
\* the documented one for the ten letters in either case, object count for
\* every other byte; the same letter in the other case yields the same field.
C5_Resolve ==
    /\ [](pc = "resolved"
            => /\ Sort_item \in Fields
               /\ Sort_item = Documented(c)
               /\ (~Recognized(c) => Sort_item = "OBJS"))
    /\ [][ (pc = "resolved" /\ pc' = "resolved" /\ c' # c)
              => Sort_item' = Sort_item ]_vars

C5_Witness ==
    pc = "resolved" /\ c = 78 /\ Sort_item = "NAME"

\* ---- C6 -----------------------------------------------------------------
\* C6 as stated: a non-quit keystroke outside the key table leaves the
\* current sort field as it was.
C6_AsStated ==
    [][ (pc = "L359" /\ pc' = "L365" /\ ~Recognized(c'))
           => Sort_item' = Sort_item ]_vars

\* C6 (amended): a byte outside the key table always makes the sort field
\* the default, object count: as the argument of -s and as a non-quit
\* keystroke alike, whatever field was selected before.
C6_ResetsToDefault ==
    /\ [][ (pc = "L359" /\ pc' = "L365" /\ ~Recognized(c'))
              => Sort_item' = "OBJS" ]_vars
    /\ [][ (OptSort /\ ~Recognized(sort_arg')) => Sort_item' = "OBJS" ]_vars

C6_Witness ==
    /\ pc = "L365" /\ nread = 1 /\ c = 120
    /\ sortKey = "NAME" /\ Sort_item = "OBJS"

\* ---- C7 -----------------------------------------------------------------
FetchFailed == nr_slabs < 0
SortFailed  == nsort >= 1 /\ v = NULL

\* C7: once a fetch or a sort has failed, in whatever cycle, main is past the
\* loop with rc = EXIT_FAILURE, nothing of that cycle has been printed or
\* flushed (every earlier interactive cycle was flushed, this one was not),
\* no fetch, sort, print or flush happens any more, control only moves on
\* through the cleanup, and the exit code is failure.
C7_FatalNoRetry ==
    /\ []((FetchFailed \/ SortFailed) =>
            /\ pc \in Terminating
            /\ rc = EXIT_FAILURE
            /\ frame = <<>>
            /\ nflush = (IF Run_once THEN 0 ELSE nfill - 1)
            /\ nsort = (IF FetchFailed THEN nfill - 1 ELSE nfill)
            /\ (pc = "done" => exit_code = EXIT_FAILURE))
    /\ [][ (FetchFailed \/ SortFailed) =>
              /\ nfill' = nfill /\ nsort' = nsort
              /\ frame' = frame /\ nflush' = nflush
              /\ pc' \in Terminating ]_vars

C7_Witness ==
    /\ pc = "done" /\ ~Run_once /\ FetchFailed
    /\ nfill = 2 /\ nflush = 1 /\ exit_code = EXIT_FAILURE

\* ---- C8 -----------------------------------------------------------------
\* C8: a process that exits with failure after initscr() has called endwin()
\* and, when stdin is a tty, tcsetattr() with the saved settings.
C8_AsStated ==
    (pc = "done" /\ exit_code = EXIT_FAILURE /\ screen # "none")
        => (screen = "ended" /\ (is_tty => tcset))

\* ---- C9 -----------------------------------------------------------------
FatalMessages == {"illegal delay", "delay must be positive integer", "usage",
                  "Unable to create slabinfo structure",
                  "Unable to allocate slabinfo nodes",
                  "Unable to get slabinfo node data",
                  "Unable to sort slab nodes",
                  "Error getting slab summary results"}

\* C9: the process exits with failure exactly when a fatal error was
\* reported (usage, open, allocate, fetch, sort or summary); a run that
\* entered the loop and whose fetches, sorts and summaries all succeeded
\* exits with success however the loop ended.
C9_ExitCode ==
    pc = "done" =>
        /\ exit_code \in {EXIT_SUCCESS, EXIT_FAILURE}
        /\ (exit_code = EXIT_FAILURE) <=> (errmsg \in FatalMessages)
        /\ (nfill >= 1 /\ ~FetchFailed /\ ~SortFailed /\ getchain = 0)
              => exit_code = EXIT_SUCCESS

C9_Witness ==
    /\ pc = "done" /\ ~Run_once /\ Delay = 0 /\ nflush = 2
    /\ exit_code = EXIT_SUCCESS /\ errmsg = "none"

\* ---- C10 ----------------------------------------------------------------
\* C10: once term_resize has run (directly at line 307, or as the SIGWINCH
\* handler) the tracked geometry is the answer of the ioctl if it succeeded
\* with more than 10 rows and 80 x 24 otherwise, so Rows > 10 and
\* Rows - 8 >= 3 throughout interactive mode.
C10_Geometry ==
    (screen # "none" \/ winch_set) =>
        /\ IF ws.ok /\ ws.row > 10
           THEN Cols = ws.col /\ Rows = ws.row
           ELSE Cols = 80 /\ Rows = 24
        /\ Rows > 10
        /\ Rows - 8 >= 3

C10_Witness ==
    /\ winch_set /\ ws.ok /\ ws.row = 10 /\ ws.col = 90
    /\ Cols = 80 /\ Rows = 24 /\ old_rows = 11

\* ---- C11 ----------------------------------------------------------------
\* C11 as stated: when parse_opts has returned and -o was among the options
\* (Run_once is set by nothing else), Delay is 0, whatever the order of -o
\* and -d.
C11_AsStated ==
    (pc = "L296" /\ Run_once) => Delay = 0

\* ---- C12 ----------------------------------------------------------------
\* C12 as stated, for a change of the columns alone: when the test of line
\* 339 is made with the rows of the surface equal to Rows and its columns
\* different from Cols, control goes on to resizeterm.
C12_AsStated ==
    [][ (pc = "L339" /\ pc' # pc /\ surface[1] = Rows /\ surface[2] # Cols)
            => pc' = "L340" ]_vars

\* ---- C13 ----------------------------------------------------------------
\* C13 as stated: a frame drawn in an iteration during which no SIGWINCH has
\* come in (whatever came in during earlier iterations, and wherever) is
\* flushed to a surface whose rows and columns are Rows and Cols.
C13_AsStated ==
    (pc = "L352" /\ winch = "none") => surface = <<Rows, Cols>>

\* ---- C14 ----------------------------------------------------------------
Min(a, b) == IF a < b THEN a ELSE b

\* C14: when the row loop of an interactive cycle has ended and no SIGWINCH
\* came in since line 343, the frame is summary, header and the rows
\* 0 .. min(Rows - 8, nr_slabs) - 1 in that order; and whatever the signals
\* did, an interactive frame that has rows is summary, header and the rows
\* 0 .. k-1 for some k <= nr_slabs.
C14_RowsRendered ==
    /\ (pc = "L352" /\ winch # "render")
          => frame = FullFrame(Min(Rows - Overhead, nr_slabs))
    /\ (~Run_once /\ Len(frame) >= 2)
          => \E k \in 0 .. MaxSlabs : k <= nr_slabs /\ frame = FullFrame(k)

C14_Witness ==
    /\ pc = "L352" /\ winch = "cycle"
    /\ Rows = 11 /\ nr_slabs = MaxSlabs
    /\ frame = FullFrame(3)

\* ---- C15 ----------------------------------------------------------------
\* C15: the rows of a frame were read through the reference the last sort
\* returned, which is not NULL; and every fetch after the first is handed
\* the reference the sort of the cycle before returned, which is not NULL.
C15_BufferReuse ==
    /\ [](Len(frame) > 2 => (rowRef = sortRet /\ rowRef # NULL))
    /\ [][ (pc = "L320" /\ nfill >= 1 /\ nfill' = nfill + 1)
               => (fillArg' = sortRet /\ fillArg' # NULL) ]_vars

C15_Witness ==
    /\ pc = "L349" /\ nfill = 2 /\ fillArg = 2 /\ sortRet = 1
    /\ rowRef = 1 /\ Len(frame) > 2

\* ---- C16 ----------------------------------------------------------------
\* C16 as stated: a process that has exited after procps_slabinfo_new
\* succeeded has released the handle with procps_slabinfo_unref.
C16_AsStated ==
    (pc = "done" /\ Slab_info # "null") => Slab_info = "freed"

\* ---- C17 ----------------------------------------------------------------
\* C17 as stated: select is entered with the positive delay the loop was
\* started with as its timeout, whatever SIGINT did during fetch, sort or
\* render.
C17_AsStated ==
    (pc \in {"L357", "wait"}) => tv > 0

\* C17: line 355 reads Delay into the timeout, after the frame is flushed; a
\* SIGINT that came in before line 355 makes it 0, and one that comes in
\* later leaves the timeout already taken alone.
C17_ReadAtTimeout ==
    /\ [][ (pc = "L355" /\ pc' = "L357") => tv' = Delay ]_vars
    /\ [][ (pc \in {"L357", "wait"}) => tv' = tv ]_vars
    /\ []((pc \in {"L357", "wait"}) => (Delay = tv \/ (Delay = 0 /\ int_set)))

C17_Witness ==
    /\ pc = "wait" /\ tv = 0 /\ Delay = 0 /\ int_set /\ nfill = 1 /\ nflush = 1

\* ---- C18 ----------------------------------------------------------------
\* statements of the do-while loop, lines 314-365
LoopLabels == BeforeRender \cup Rendering \cup {"L355", "L357", "wait", "L359", "L365"}

\* what the handlers leave alone
MainData == <<Sort_item, Run_once, v, nr_slabs, old_rows, rc, exit_code, surface,
              screen, tcset, fillArg, sortKey, nfill, nsort, frame, nflush, c, nread>>

\* the only effect of a handler on the flow of main: select returns -1
HandlerReturn == pc' = pc \/ (pc = "wait" /\ pc' = "L365" /\ sel' = -1)

\* C18: inside the loop a step that changes Cols or Rows is a step of the
\* SIGWINCH handler (main stays where it is, or select returns -1) and leaves
\* Delay and the data of main alone; a step that changes Delay is a step of
\* the SIGINT handler, sets it to 0 and leaves Cols, Rows and the data of
\* main alone; and once Delay is 0 in the loop it stays 0.
C18_HandlerFrame ==
    /\ [][ (pc \in LoopLabels /\ (Cols' # Cols \/ Rows' # Rows))
               => (HandlerReturn /\ UNCHANGED <<Delay, MainData>>) ]_vars
    /\ [][ (pc \in LoopLabels /\ Delay' # Delay)
               => (Delay' = 0 /\ HandlerReturn
                      /\ UNCHANGED <<Cols, Rows, MainData>>) ]_vars
    /\ [][ (pc \in LoopLabels /\ Delay = 0) => Delay' = 0 ]_vars

C18_Witness ==
    /\ pc = "L349" /\ Delay = 0 /\ int_set
    /\ Rows = 11 /\ Cols = 100 /\ old_rows = 24 /\ surface = <<24, 80>>
    /\ Sort_item = "NAME" /\ nfill = 2

\* ---- C19 ----------------------------------------------------------------
\* SIGINT has been delivered: only sigint_handler zeroes Delay once it is
\* installed
IntDelivered == int_set /\ Delay = 0

\* C19 as stated, for the state the process ends in: "done" is final, so a
\* run in which SIGINT was delivered reaches it with endwin() called and the
\* terminal settings restored only if every such state is like that.
C19_AsStated ==
    (IntDelivered /\ pc = "done") => (screen = "ended" /\ (is_tty => tcset))

\* ---- C20 ----------------------------------------------------------------
\* C20 as stated: after a wait that ended by timeout the loop goes back to
\* the fetch with the sort field it had.
C20_AsStated ==
    [][ (pc = "L365" /\ sel = 0 /\ pc' # pc)
            => (pc' = "L320" /\ Sort_item' = Sort_item) ]_vars

\* C20: in the loop only the step that read a byte other than q and Q
\* changes the sort field, and that step always assigns it; a wait that ends
\* by timeout or by a signal leaves it alone; and after such a wait the loop
\* goes back to the fetch with the same sort field if Delay is not 0, and
\* leaves the loop if SIGINT has zeroed it.
C20_SortFieldFrame ==
    /\ [][ (pc \in LoopLabels /\ Sort_item' # Sort_item)
               => (pc = "L359" /\ pc' = "L365" /\ nread' = 1
                      /\ c' \notin QuitKeys) ]_vars
    /\ [][ (pc = "L359" /\ pc' = "L365") => Sort_item' = set_sort_item(c') ]_vars
    /\ [][ (pc = "wait" /\ pc' = "L365") => Sort_item' = Sort_item ]_vars
    /\ [][ (pc = "L365" /\ pc' # pc)
               => /\ Sort_item' = Sort_item
                  /\ pc' = (IF Delay # 0 THEN "L320" ELSE "L367") ]_vars
    /\ []((pc \in ShownLabels) => sortKey = Sort_item)

C20_Witness ==
    /\ pc = "L352" /\ nfill = 2 /\ nread = 0 /\ Delay # 0
    /\ Sort_item = "NAME" /\ sortKey = "NAME" /\ nsort = 2

====
